---- MODULE Spec2Model ----
(***************************************************************************)
(* A model of SpotifyManager (src/spotify_manager/spotify_manager.py): a   *)
(* facade over the spotipy client.  A caller invokes a public method with  *)
(* its arguments; every public method is one action: it runs the whole     *)
(* method against a remote service whose answers (a fault or a payload per *)
(* call) are inputs, and records the remote calls issued, in order,        *)
(* together with what the caller gets back.                                *)
(***************************************************************************)
EXTENDS Integers, Sequences, FiniteSets, TLC

VARIABLES
    pc,        \* "idle": no call; "called": a method is to run; "done": it has run
    op,        \* the method last invoked and its arguments
    calls,     \* the remote calls that method issued, oldest first
    outcome    \* what that method gave the caller: a return or an exception

vars == <<pc, op, calls, outcome>>

----------------------------------------------------------------------------
(* Bounds of the model. *)

MaxItems == 2      \* longest list the remote service returns
MaxDevices == 2    \* longest device roster the remote service returns
MaxFaults == 2     \* most remote calls of one method that fail
MaxRounds == 3     \* most next_repeat_state calls made in a row

----------------------------------------------------------------------------
(* Python values handed in by the caller.  t is the Python type; i, s, b   *)
(* hold the value of an int, a str, a bool.                                *)

PyInt(n) == [t |-> "int", i |-> n, s |-> "", b |-> FALSE]
PyStr(x) == [t |-> "str", i |-> 0, s |-> x, b |-> FALSE]
PyBool(x) == [t |-> "bool", i |-> 0, s |-> "", b |-> x]
PyNone == [t |-> "NoneType", i |-> 0, s |-> "", b |-> FALSE]

\* isinstance(v, int): bool is a subclass of int
IsInstanceInt(v) == v.t \in {"int", "bool"}

\* the number a Python int or bool stands for (True is 1, False is 0)
IntOf(v) == IF v.t = "bool" THEN (IF v.b THEN 1 ELSE 0) ELSE v.i

\* Python ==: numbers (bool included) compare by value, str with str
PyEq(a, b) ==
    IF IsInstanceInt(a) /\ IsInstanceInt(b) THEN IntOf(a) = IntOf(b)
    ELSE a.t = b.t /\ a.s = b.s

\* Python truth value, as in "if device_id:"
Truthy(v) ==
    CASE v.t = "NoneType" -> FALSE
      [] v.t = "str" -> v.s # ""
      [] OTHER -> IntOf(v) # 0

\* x in [list]
PyIn(x, list) == \E k \in 1..Len(list) : PyEq(x, list[k])

----------------------------------------------------------------------------
(* Faults of the remote service: SpotifyException(http_status, msg).  A    *)
(* message is a string; "'x' in se.msg" holds when x is a substring of it. *)

InMsg(x, msg) ==
    \E k \in 0..(Len(msg) - Len(x)) : SubSeq(msg, k + 1, k + Len(x)) = x

NoData == [devices |-> <<>>, present |-> FALSE, item |-> <<>>, progress_ms |-> 0,
           repeat_state |-> "", shuffle_state |-> FALSE, items |-> <<>>]

Fault(status, msg) == [ok |-> FALSE, http_status |-> status, msg |-> msg, data |-> NoData]
Ok(data) == [ok |-> TRUE, http_status |-> 200, msg |-> "", data |-> data]

Forbidden == Fault(403, "Forbidden")
\* a 403 whose message has 'Forbidden' inside a longer word
ForbiddenCall == Fault(403, "PlayerForbidden.")
Restricted == Fault(403, "Player command failed: Restriction violated")
NotFound == Fault(404, "Device not found")
NoSearchQuery == Fault(400, "No search query")
BadRequest == Fault(400, "Bad request")
ServerError == Fault(500, "Server error")

Faults ==
    {Forbidden, ForbiddenCall, Restricted, NotFound, NoSearchQuery, BadRequest,
     ServerError}

\* the remote service's answers to the n successive calls of one method:
\* success or a fault for each, at most f of them faults
RECURSIVE Oracles(_, _)
Oracles(n, f) ==
    IF n = 0 THEN {<<>>}
    ELSE {<<Ok(NoData)>> \o o : o \in Oracles(n - 1, f)}
         \cup (IF f = 0 THEN {}
               ELSE {<<x>> \o o : x \in Faults, o \in Oracles(n - 1, f - 1)})

----------------------------------------------------------------------------
(* What the remote service returns when a call succeeds.  URIs are opaque  *)
(* triples; lists come back in the service's own order, which is not the   *)
(* sorted one.                                                             *)

Uri(kind, owner, k) == <<kind, owner, k>>

\* the first n entries the service lists for a kind of object
Listing(kind, owner, n) == [k \in 1..n |-> [uri |-> Uri(kind, owner, n + 1 - k)]]

\* the track being played: status['item']
CurrentItem(env) ==
    [uri |-> Uri("track", 0, 0),
     artists |-> [k \in 1..env.m |->
                    [uri |-> Uri("artist", 0, env.m + 1 - k),
                     name |-> "artist " \o ToString(env.m + 1 - k)]],
     album |-> [uri |-> Uri("album", 0, 0), release_date |-> "2001-01-01"]]

\* a remote call and its arguments: q a query or genre, arg the value or
\* limit, dev the device_id, ctx a context or seed URI, uris a URI list,
\* type the search type or the keyword the URIs are passed under
Args(fn) ==
    [fn |-> fn, q |-> PyNone, arg |-> PyNone, dev |-> PyNone, ctx |-> <<>>,
     uris |-> <<>>, type |-> ""]

DataFor(st, c) ==
    LET env == st.env IN
    CASE c.fn = "devices" -> [NoData EXCEPT !.devices = env.roster]
      [] c.fn = "currently_playing" ->
            IF env.present
            THEN [NoData EXCEPT !.present = TRUE, !.item = CurrentItem(env),
                                !.progress_ms = env.progress_ms]
            ELSE NoData
      [] c.fn = "current_playback" ->
            IF env.present
            THEN [NoData EXCEPT !.present = TRUE,
                                !.repeat_state = env.repeat_state,
                                !.shuffle_state = env.shuffle_state]
            ELSE NoData
      [] c.fn = "search" -> [NoData EXCEPT !.items = Listing(c.type, 0, env.n)]
      [] c.fn \in {"recommendations", "current_user_recently_played",
                   "current_user_top_tracks", "album_tracks"} ->
            [NoData EXCEPT !.items = Listing("track", 0, env.n)]
      [] c.fn = "current_user_top_artists" ->
            [NoData EXCEPT !.items = Listing("artist", 0, env.n)]
      [] c.fn = "artist_top_tracks" ->
            [NoData EXCEPT !.items = Listing("track", c.ctx[3], env.nt[c.ctx[3]])]
      [] OTHER -> NoData

\* self.sp.<fn>(...): the call is recorded with its answer
Call(st, c) ==
    LET k == Len(st.calls) + 1
        f == IF k <= Len(st.env.faults) THEN st.env.faults[k] ELSE Ok(NoData)
        res == IF f.ok THEN Ok(DataFor(st, c)) ELSE f
    IN  [st EXCEPT !.calls = Append(@, [call |-> c, res |-> res])]

\* a call that takes a value and a device_id
Issue(st, fn, arg, dev) == Call(st, [Args(fn) EXCEPT !.arg = arg, !.dev = dev])

LastRes(st) == st.calls[Len(st.calls)].res

----------------------------------------------------------------------------
(* How a method ends. *)

Return(st, v) ==
    [st |-> st,
     out |-> [kind |-> "return", val |-> v, text |-> "", http_status |-> 0,
              msg |-> "", at |-> 0]]

\* raise <kind>(text), raised by the facade itself
Raise(st, kind, text) ==
    [st |-> st,
     out |-> [kind |-> kind, val |-> PyNone, text |-> text, http_status |-> 0,
              msg |-> "", at |-> 0]]

\* the SpotifyException of the last call reaches the caller ("raise", or no
\* handler at all); at is the position of the call that raised it
Propagate(st) ==
    [st |-> st,
     out |-> [kind |-> "SpotifyException", val |-> PyNone, text |-> "",
              http_status |-> LastRes(st).http_status, msg |-> LastRes(st).msg,
              at |-> Len(st.calls)]]

Returned(r) == r.out.kind = "return"

NoActiveDeviceText == "There is no active device or device_id is not valid."

----------------------------------------------------------------------------
(* Device discovery. *)

\* the first of the places hits of a roster, 0 if there is none: the device
\* a "for dev in devices: if ...: return dev" loop returns
FirstDevice(hits) ==
    IF hits = {} THEN 0 ELSE CHOOSE k \in hits : \A j \in hits : k <= j

_get_active_device(st) ==
    LET Listed(s1) ==
            LET devices == LastRes(s1).data.devices
                Found(k) ==
                    IF k # 0 THEN Return(s1, devices[k])
                    ELSE Raise(s1, "ConnectionError", "There is no active device")
            IN  IF ~LastRes(s1).ok THEN Propagate(s1)
                ELSE Found(FirstDevice({j \in 1..Len(devices) : devices[j].is_active}))
    IN  Listed(Issue(st, "devices", PyNone, PyNone))

_get_device(device_id, st) ==
    LET Listed(s1) ==
            LET devices == LastRes(s1).data.devices
                Found(k) ==
                    IF k # 0 THEN Return(s1, devices[k])
                    ELSE Raise(s1, "ConnectionError",
                               "There is no active device that match target ID")
            IN  IF ~LastRes(s1).ok THEN Propagate(s1)
                ELSE Found(FirstDevice({j \in 1..Len(devices) :
                                            PyEq(PyStr(devices[j].id), device_id)}))
    IN  Listed(Issue(st, "devices", PyNone, PyNone))

----------------------------------------------------------------------------
(* Volume. *)

\* a get_volume that reads the active device whatever device_id is
get_volume_of_active(device_id, st) ==
    LET Got(r) == IF Returned(r) THEN Return(r.st, r.out.val.volume_percent) ELSE r
    IN  Got(_get_active_device(st))

get_volume(device_id, st) ==
    LET Got(r) == IF Returned(r) THEN Return(r.st, r.out.val.volume_percent) ELSE r
    IN  Got(IF Truthy(device_id) THEN _get_device(device_id, st)
            ELSE _get_active_device(st))

\* a set_volume that sends the volume as it was given
set_volume_unclamped(volume_percent, device_id, st) ==
    LET Sent(s1) ==
            IF LastRes(s1).ok THEN Return(s1, PyNone)
            ELSE IF LastRes(s1).http_status = 403
            THEN Raise(s1, "ConnectionError", NoActiveDeviceText)
            ELSE Propagate(s1)
    IN  IF ~IsInstanceInt(volume_percent)
        THEN Raise(st, "TypeError", "volume_percent is not an integer")
        ELSE Sent(Issue(st, "volume", PyInt(IntOf(volume_percent)), device_id))

set_volume(volume_percent, device_id, st) ==
    LET v == IF IntOf(volume_percent) > 100 THEN 100
             ELSE IF IntOf(volume_percent) < 0 THEN 0
             ELSE IntOf(volume_percent)
        Sent(s1) ==
            IF LastRes(s1).ok THEN Return(s1, PyNone)
            ELSE IF LastRes(s1).http_status = 403
            THEN Raise(s1, "ConnectionError", NoActiveDeviceText)
            ELSE Propagate(s1)
    IN  IF ~IsInstanceInt(volume_percent)
        THEN Raise(st, "TypeError", "volume_percent is not an integer")
        ELSE Sent(Issue(st, "volume", PyInt(v), device_id))

\* an increase_volume that reads the volume before it checks its argument
increase_volume_late_check(volume_percent, device_id, st) ==
    LET Got(r) ==
            LET sum == r.out.val + IntOf(volume_percent)
                volume == IF sum > 100 THEN 100 ELSE IF sum < 0 THEN 0 ELSE sum
            IN  IF ~Returned(r) THEN r
                ELSE IF ~IsInstanceInt(volume_percent)
                THEN Raise(r.st, "TypeError", "volume_percent is not an integer")
                ELSE set_volume(PyInt(volume), device_id, r.st)
    IN  Got(get_volume(device_id, st))

increase_volume(volume_percent, device_id, st) ==
    LET Got(r) ==
            LET sum == r.out.val + IntOf(volume_percent)
                volume == IF sum > 100 THEN 100 ELSE IF sum < 0 THEN 0 ELSE sum
            IN  IF Returned(r) THEN set_volume(PyInt(volume), device_id, r.st) ELSE r
    IN  IF ~IsInstanceInt(volume_percent)
        THEN Raise(st, "TypeError", "volume_percent is not an integer")
        ELSE Got(get_volume(device_id, st))

decrease_volume(volume_percent, device_id, st) ==
    IF ~IsInstanceInt(volume_percent)
    THEN Raise(st, "TypeError", "volume_percent is not an integer")
    ELSE increase_volume(PyInt(-IntOf(volume_percent)), device_id, st)

----------------------------------------------------------------------------
(* Get info. *)

\* a get_current_song_info that answers with a track when nothing plays
get_current_song_info_unchecked(st) ==
    LET Asked(s1) ==
            IF ~LastRes(s1).ok THEN Propagate(s1)
            ELSE Return(s1, CurrentItem(st.env))
    IN  Asked(Issue(st, "currently_playing", PyNone, PyNone))

get_current_song_info(st) ==
    LET Asked(s1) ==
            IF ~LastRes(s1).ok THEN Propagate(s1)
            ELSE IF ~LastRes(s1).data.present
            THEN Raise(s1, "ConnectionError", "User not connected to Spotify ")
            ELSE Return(s1, LastRes(s1).data.item)
    IN  Asked(Issue(st, "currently_playing", PyNone, PyNone))

get_current_album_info(st) ==
    LET Got(r) == IF Returned(r) THEN Return(r.st, r.out.val.album) ELSE r
    IN  Got(get_current_song_info(st))

\* artists_string after the loop over artists[k..]
RECURSIVE JoinNames(_, _)
JoinNames(artists, k) ==
    IF k > Len(artists) THEN ""
    ELSE artists[k].name \o ", " \o JoinNames(artists, k + 1)

\* s[:-2]
DropLastTwo(s) == IF Len(s) <= 2 THEN "" ELSE SubSeq(s, 1, Len(s) - 2)

get_current_song_artist(st) ==
    LET Got(r) ==
            IF Returned(r)
            THEN Return(r.st, PyStr(DropLastTwo(JoinNames(r.out.val.artists, 1))))
            ELSE r
    IN  Got(get_current_song_info(st))

get_current_album_release_date(st) ==
    LET Got(r) ==
            IF Returned(r) THEN Return(r.st, PyStr(r.out.val.album.release_date)) ELSE r
    IN  Got(get_current_song_info(st))

----------------------------------------------------------------------------
(* Streaming. *)

play(device_id, st) ==
    LET Sent(s1) ==
            LET se == LastRes(s1)
            IN  IF se.ok THEN Return(s1, PyNone)
                ELSE IF se.http_status = 404
                THEN Raise(s1, "ConnectionError", NoActiveDeviceText)
                ELSE IF se.http_status = 403 /\ InMsg("Forbidden", se.msg)
                THEN Raise(s1, "ConnectionError", NoActiveDeviceText)
                ELSE Propagate(s1)
    IN  Sent(Issue(st, "start_playback", PyNone, device_id))

pause(device_id, st) ==
    LET Sent(s1) ==
            LET se == LastRes(s1)
            IN  IF se.ok THEN Return(s1, PyNone)
                ELSE IF se.http_status = 404
                THEN Raise(s1, "ConnectionError", NoActiveDeviceText)
                ELSE IF se.http_status = 403 /\ InMsg("Forbidden", se.msg)
                THEN Raise(s1, "ConnectionError", NoActiveDeviceText)
                ELSE Propagate(s1)
    IN  Sent(Issue(st, "pause_playback", PyNone, device_id))

\* a switch_play_pause that pauses after any 403, "Forbidden" included
switch_play_pause_any_403(device_id, st) ==
    LET Paused(s2) == IF LastRes(s2).ok THEN Return(s2, PyNone) ELSE Propagate(s2)
        Sent(s1) ==
            LET se == LastRes(s1)
            IN  IF se.ok THEN Return(s1, PyNone)
                ELSE IF se.http_status = 403
                THEN Paused(Issue(s1, "pause_playback", PyNone, device_id))
                ELSE IF se.http_status = 404
                THEN Raise(s1, "ConnectionError", NoActiveDeviceText)
                ELSE Propagate(s1)
    IN  Sent(Issue(st, "start_playback", PyNone, device_id))

switch_play_pause(device_id, st) ==
    LET Paused(s2) == IF LastRes(s2).ok THEN Return(s2, PyNone) ELSE Propagate(s2)
        Sent(s1) ==
            LET se == LastRes(s1)
            IN  IF se.ok THEN Return(s1, PyNone)
                ELSE IF se.http_status = 403
                THEN IF ~InMsg("Forbidden", se.msg)
                     THEN Paused(Issue(s1, "pause_playback", PyNone, device_id))
                     ELSE Raise(s1, "ConnectionError", NoActiveDeviceText)
                ELSE IF se.http_status = 404
                THEN Raise(s1, "ConnectionError", NoActiveDeviceText)
                ELSE Propagate(s1)
    IN  Sent(Issue(st, "start_playback", PyNone, device_id))

\* a next_song that reports every fault as a missing device
next_song_translating(device_id, st) ==
    LET Sent(s1) ==
            IF LastRes(s1).ok THEN Return(s1, PyNone)
            ELSE Raise(s1, "ConnectionError", NoActiveDeviceText)
    IN  Sent(Issue(st, "next_track", PyNone, device_id))

next_song(device_id, st) ==
    LET Sent(s1) ==
            LET se == LastRes(s1)
            IN  IF se.ok THEN Return(s1, PyNone)
                ELSE IF se.http_status = 404 \/ se.http_status = 403
                THEN Raise(s1, "ConnectionError", NoActiveDeviceText)
                ELSE Propagate(s1)
    IN  Sent(Issue(st, "next_track", PyNone, device_id))

\* a restart_song that seeks on the active device whatever device_id is
restart_song_no_device(device_id, st) ==
    LET Sent(s1) ==
            LET se == LastRes(s1)
            IN  IF se.ok THEN Return(s1, PyNone)
                ELSE IF se.http_status = 404 \/ se.http_status = 403
                THEN Raise(s1, "ConnectionError", NoActiveDeviceText)
                ELSE Propagate(s1)
    IN  Sent(Issue(st, "seek_track", PyInt(0), PyNone))

restart_song(device_id, st) ==
    LET Sent(s1) ==
            LET se == LastRes(s1)
            IN  IF se.ok THEN Return(s1, PyNone)
                ELSE IF se.http_status = 404 \/ se.http_status = 403
                THEN Raise(s1, "ConnectionError", NoActiveDeviceText)
                ELSE Propagate(s1)
    IN  Sent(Issue(st, "seek_track", PyInt(0), device_id))

previous_song(restart_time, device_id, st) ==
    LET Sent(s2) ==
            LET se == LastRes(s2)
            IN  IF se.ok THEN Return(s2, PyNone)
                ELSE IF se.http_status = 403
                THEN IF ~InMsg("Forbidden", se.msg)
                     THEN restart_song(device_id, s2)
                     ELSE Raise(s2, "ConnectionError", NoActiveDeviceText)
                ELSE IF se.http_status = 404
                THEN Raise(s2, "ConnectionError", NoActiveDeviceText)
                ELSE Propagate(s2)
        Back(s) == Sent(Issue(s, "previous_track", PyNone, device_id))
        Asked(s1) ==
            LET status == LastRes(s1)
            IN  IF ~status.ok THEN Propagate(s1)
                \* None['progress_ms']
                ELSE IF ~status.data.present
                THEN Raise(s1, "TypeError", "'NoneType' object is not subscriptable")
                \* progress_ms / 1000 > restart_time, a true division
                ELSE IF status.data.progress_ms > 1000 * IntOf(restart_time)
                THEN restart_song(device_id, s1)
                ELSE Back(s1)
    IN  IF ~IsInstanceInt(restart_time)
        THEN Raise(st, "TypeError", "restart_time is not an integer")
        ELSE IF IntOf(restart_time) = 0 THEN Back(st)
        ELSE Asked(Issue(st, "currently_playing", PyNone, PyNone))

----------------------------------------------------------------------------
(* Repeat & Shuffle. *)

NotConnectedText == "User is not connected to Spotify."

get_repeat_state(st) ==
    LET Asked(s1) ==
            IF ~LastRes(s1).ok THEN Propagate(s1)
            ELSE IF ~LastRes(s1).data.present
            THEN Raise(s1, "ConnectionError", NotConnectedText)
            ELSE Return(s1, PyStr(LastRes(s1).data.repeat_state))
    IN  Asked(Issue(st, "current_playback", PyNone, PyNone))

\* a set_repeat_state that leaves the validation to the remote service
set_repeat_state_unchecked(repeat_state, device_id, st) ==
    LET Sent(s1) ==
            IF LastRes(s1).ok THEN Return(s1, PyNone)
            ELSE IF LastRes(s1).http_status = 404
            THEN Raise(s1, "ConnectionError", NoActiveDeviceText)
            ELSE IF LastRes(s1).http_status = 400
            THEN Raise(s1, "TypeError",
                       "repeat_state must be 'track', 'context' or 'off'.")
            ELSE Propagate(s1)
    IN  Sent(Issue(st, "repeat", repeat_state, device_id))

set_repeat_state(repeat_state, device_id, st) ==
    LET Sent(s1) ==
            IF LastRes(s1).ok THEN Return(s1, PyNone)
            ELSE IF LastRes(s1).http_status = 404
            THEN Raise(s1, "ConnectionError", NoActiveDeviceText)
            ELSE Propagate(s1)
    IN  IF ~PyIn(repeat_state, <<PyStr("track"), PyStr("context"), PyStr("off")>>)
        THEN Raise(st, "TypeError", "repeat_state must be 'track', 'context' or 'off'.")
        ELSE Sent(Issue(st, "repeat", repeat_state, device_id))

\* a next_repeat_state without its elif branch: 'context' goes to 'track'
next_repeat_state_two_states(device_id, st) ==
    LET Got(r) ==
            LET repeat_state == IF r.out.val.s = "track" THEN "context" ELSE "track"
            IN  IF Returned(r)
                THEN set_repeat_state(PyStr(repeat_state), device_id, r.st)
                ELSE r
    IN  Got(get_repeat_state(st))

next_repeat_state(device_id, st) ==
    LET Got(r) ==
            LET repeat_state == IF r.out.val.s = "track" THEN "context"
                                ELSE IF r.out.val.s = "context" THEN "off"
                                ELSE "track"
            IN  IF Returned(r)
                THEN set_repeat_state(PyStr(repeat_state), device_id, r.st)
                ELSE r
    IN  Got(get_repeat_state(st))

get_shuffle_state(st) ==
    LET Asked(s1) ==
            IF ~LastRes(s1).ok THEN Propagate(s1)
            ELSE IF ~LastRes(s1).data.present
            THEN Raise(s1, "ConnectionError", NotConnectedText)
            ELSE Return(s1, PyBool(LastRes(s1).data.shuffle_state))
    IN  Asked(Issue(st, "current_playback", PyNone, PyNone))

set_shuffle_state(shuffle_state, device_id, st) ==
    LET Sent(s1) ==
            IF LastRes(s1).ok THEN Return(s1, PyNone)
            ELSE IF LastRes(s1).http_status = 404
            THEN Raise(s1, "ConnectionError", NoActiveDeviceText)
            ELSE Propagate(s1)
    IN  IF ~PyIn(shuffle_state, <<PyBool(TRUE), PyBool(FALSE)>>)
        THEN Raise(st, "TypeError", "shuffle_state must be True or False.")
        ELSE Sent(Issue(st, "shuffle", shuffle_state, device_id))

switch_shuffle_state(device_id, st) ==
    LET Got(r) ==
            IF Returned(r)
            THEN set_shuffle_state(PyBool(~r.out.val.b), device_id, r.st)
            ELSE r
    IN  Got(get_shuffle_state(st))

----------------------------------------------------------------------------
(* Play. *)

\* a UrisOf that puts each URI in front of those gathered before it
UrisOfReversed(items) == [k \in 1..Len(items) |-> items[Len(items) + 1 - k].uri]

\* [item['uri'] for item in items]
UrisOf(items) == [k \in 1..Len(items) |-> items[k].uri]

\* self.sp.start_playback(uris=uris, device_id=device_id)
StartUris(st, uris, device_id) ==
    Call(st, [Args("start_playback") EXCEPT !.uris = uris, !.dev = device_id,
                                            !.type = "uris"])

\* self.sp.start_playback(context_uri=uri, device_id=device_id)
StartContext(st, uri, device_id) ==
    Call(st, [Args("start_playback") EXCEPT !.ctx = uri, !.dev = device_id,
                                            !.type = "context_uri"])

\* self.sp.search(name, 1, type=type)
Search(st, name, type) ==
    Call(st, [Args("search") EXCEPT !.q = name, !.arg = PyInt(1), !.type = type])

\* a step of a try block that either completes or leaves r to the handlers
Done(r) == IF LastRes(r).ok THEN Return(r, PyNone) ELSE Propagate(r)

\* the except clauses of the search-and-play methods
SearchPlayExcept(r) ==
    IF r.out.kind # "SpotifyException" THEN r
    ELSE IF r.out.http_status = 400 /\ InMsg("No search query", r.out.msg)
    THEN Raise(r.st, "TypeError", "There is no search query.")
    ELSE IF r.out.http_status = 404
    THEN Raise(r.st, "ConnectionError", "device_id is not valid.")
    ELSE r

\* the except clause of the methods that play a gathered list
ListPlayExcept(r) ==
    IF r.out.kind # "SpotifyException" THEN r
    ELSE IF r.out.http_status = 404
    THEN Raise(r.st, "ConnectionError", "device_id is not valid.")
    ELSE r

\* uri = self.sp.search(name, 1, type=type)[...]['items'][0]['uri']
\* a SearchFirst that takes the last item of the result
SearchLast(st, name, type) ==
    LET Searched(s1) ==
            LET items == LastRes(s1).data.items
            IN  IF ~LastRes(s1).ok THEN Propagate(s1)
                ELSE IF Len(items) = 0
                THEN Raise(s1, "IndexError", "There is no results.")
                ELSE Return(s1, items[Len(items)].uri)
    IN  Searched(Search(st, name, type))

SearchFirst(st, name, type) ==
    LET Searched(s1) ==
            LET items == LastRes(s1).data.items
            IN  IF ~LastRes(s1).ok THEN Propagate(s1)
                ELSE IF Len(items) = 0
                THEN Raise(s1, "IndexError", "There is no results.")
                ELSE Return(s1, items[1].uri)
    IN  Searched(Search(st, name, type))

play_song(song_name, device_id, st) ==
    LET Found(r) ==
            IF Returned(r) THEN Done(StartUris(r.st, <<r.out.val>>, device_id)) ELSE r
    IN  SearchPlayExcept(Found(SearchFirst(st, song_name, "track")))

\* a play_album that sets the shuffle state whether or not the playback started
play_album_shuffles_anyway(album_name, device_id, st) ==
    LET Started(s2) == set_shuffle_state(PyBool(FALSE), device_id, s2)
        Found(r) ==
            IF Returned(r) THEN Started(StartContext(r.st, r.out.val, device_id))
            ELSE r
    IN  SearchPlayExcept(Found(SearchFirst(st, album_name, "album")))

play_album(album_name, device_id, st) ==
    LET Started(s2) ==
            IF ~LastRes(s2).ok THEN Propagate(s2)
            ELSE set_shuffle_state(PyBool(FALSE), device_id, s2)
        Found(r) ==
            IF Returned(r) THEN Started(StartContext(r.st, r.out.val, device_id))
            ELSE r
    IN  SearchPlayExcept(Found(SearchFirst(st, album_name, "album")))

play_artist(artist_name, device_id, st) ==
    LET Found(r) ==
            IF Returned(r) THEN Done(StartContext(r.st, r.out.val, device_id)) ELSE r
    IN  SearchPlayExcept(Found(SearchFirst(st, artist_name, "artist")))

play_playlist(playlist_name, device_id, st) ==
    LET Found(r) ==
            IF Returned(r) THEN Done(StartContext(r.st, r.out.val, device_id)) ELSE r
    IN  SearchPlayExcept(Found(SearchFirst(st, playlist_name, "playlist")))

LimitText == "limit must be an integer."

\* self.sp.recommendations(seed_...=seeds, limit=limit)
Recommendations(st, seed, genre, seeds, limit) ==
    Call(st, [Args("recommendations") EXCEPT !.type = seed, !.q = genre,
                                             !.uris = seeds, !.arg = limit])

play_genre(genre_name, limit, device_id, st) ==
    LET Seeds(s2) ==
            IF LastRes(s2).ok
            THEN Raise(s2, "TypeError", "genre_name must be in <genres>")
            ELSE Propagate(s2)
        Recommended(s1) ==
            LET results == LastRes(s1).data.items
            IN  IF ~LastRes(s1).ok THEN Propagate(s1)
                ELSE IF Len(results) = 0
                THEN Seeds(Issue(s1, "recommendation_genre_seeds", PyNone, PyNone))
                ELSE Done(StartUris(s1, UrisOf(results), device_id))
    IN  IF ~IsInstanceInt(limit) THEN Raise(st, "TypeError", LimitText)
        ELSE ListPlayExcept(
                Recommended(Recommendations(st, "seed_genres", genre_name, <<>>, limit)))

play_similar_from_current_artist(limit, device_id, st) ==
    LET Recommended(s2) ==
            IF ~LastRes(s2).ok THEN Propagate(s2)
            ELSE Done(StartUris(s2, UrisOf(LastRes(s2).data.items), device_id))
        Got(r) ==
            IF ~Returned(r) THEN r
            ELSE Recommended(Recommendations(r.st, "seed_artists", PyNone,
                                             UrisOf(r.out.val.artists), limit))
    IN  IF ~IsInstanceInt(limit) THEN Raise(st, "TypeError", LimitText)
        ELSE ListPlayExcept(Got(get_current_song_info(st)))

play_similar_from_current_track(limit, device_id, st) ==
    LET Recommended(s2) ==
            IF ~LastRes(s2).ok THEN Propagate(s2)
            ELSE Done(StartUris(s2, UrisOf(LastRes(s2).data.items), device_id))
        Got(r) ==
            IF ~Returned(r) THEN r
            ELSE Recommended(Recommendations(r.st, "seed_tracks", PyNone,
                                             <<r.out.val.uri>>, limit))
    IN  IF ~IsInstanceInt(limit) THEN Raise(st, "TypeError", LimitText)
        ELSE ListPlayExcept(Got(get_current_song_info(st)))

play_recently_played(limit, device_id, st) ==
    LET Listed(s1) ==
            IF ~LastRes(s1).ok THEN Propagate(s1)
            ELSE Done(StartUris(s1, UrisOf(LastRes(s1).data.items), device_id))
    IN  IF ~IsInstanceInt(limit) THEN Raise(st, "TypeError", LimitText)
        ELSE ListPlayExcept(
                Listed(Issue(st, "current_user_recently_played", limit, PyNone)))

play_top_tracks(limit, device_id, st) ==
    LET Listed(s1) ==
            IF ~LastRes(s1).ok THEN Propagate(s1)
            ELSE Done(StartUris(s1, UrisOf(LastRes(s1).data.items), device_id))
    IN  IF ~IsInstanceInt(limit) THEN Raise(st, "TypeError", LimitText)
        ELSE ListPlayExcept(Listed(Issue(st, "current_user_top_tracks", limit, PyNone)))

\* the inner loop of play_top_artists over artists[k..]: r.out.val is the
\* list of URIs gathered so far
RECURSIVE GatherTopTracks(_, _, _)
GatherTopTracks(artists, k, r) ==
    LET Listed(s1) ==
            IF ~LastRes(s1).ok THEN Propagate(s1)
            ELSE GatherTopTracks(artists, k + 1,
                    Return(s1, r.out.val \o UrisOf(LastRes(s1).data.items)))
    IN  IF k > Len(artists) \/ ~Returned(r) THEN r
        ELSE Listed(Call(r.st, [Args("artist_top_tracks") EXCEPT
                                    !.ctx = artists[k].uri]))

play_top_artists(limit, device_id, st) ==
    LET Started(s2) ==
            IF ~LastRes(s2).ok THEN Propagate(s2)
            ELSE set_shuffle_state(PyBool(TRUE), PyNone, s2)
        Gathered(g) ==
            IF ~Returned(g) THEN g
            ELSE Started(StartUris(g.st, g.out.val, device_id))
        Listed(s1) ==
            IF ~LastRes(s1).ok THEN Propagate(s1)
            ELSE Gathered(GatherTopTracks(LastRes(s1).data.items, 1, Return(s1, <<>>)))
    IN  IF ~IsInstanceInt(limit) THEN Raise(st, "TypeError", LimitText)
        ELSE ListPlayExcept(Listed(Issue(st, "current_user_top_artists", limit, PyNone)))

----------------------------------------------------------------------------
(* Save & Delete. *)

\* self.sp.<fn>(uris), with no handler around it
Library(st, fn, uris) == Done(Call(st, [Args(fn) EXCEPT !.uris = uris]))

save_current_song(st) ==
    LET Got(r) ==
            IF Returned(r)
            THEN Library(r.st, "current_user_saved_tracks_add", <<r.out.val.uri>>)
            ELSE r
    IN  Got(get_current_song_info(st))

delete_current_song(st) ==
    LET Got(r) ==
            IF Returned(r)
            THEN Library(r.st, "current_user_saved_tracks_delete", <<r.out.val.uri>>)
            ELSE r
    IN  Got(get_current_song_info(st))

save_current_album(st) ==
    LET Got(r) ==
            IF Returned(r)
            THEN Library(r.st, "current_user_saved_albums_add", <<r.out.val.uri>>)
            ELSE r
    IN  Got(get_current_album_info(st))

delete_current_album(st) ==
    LET Listed(s1) ==
            IF ~LastRes(s1).ok THEN Propagate(s1)
            ELSE Library(s1, "current_user_saved_tracks_delete",
                         UrisOf(LastRes(s1).data.items))
        Got(r) ==
            IF ~Returned(r) THEN r
            ELSE Listed(Call(r.st, [Args("album_tracks") EXCEPT !.ctx = r.out.val.uri]))
    IN  Got(get_current_album_info(st))

----------------------------------------------------------------------------
(* The arguments callers pass and the payloads the remote service returns. *)

DeviceNames == <<"d1", "d2", "d3", "d4">>
DeviceVolumes == <<0, 40, 100, 130>>

\* the rosters devices() may return: devices d1, d2, ... in that order, any
\* of them active, no two with the same volume, each volume at each place
Roster(n, active, c) ==
    [k \in 1..n |->
        [id |-> DeviceNames[k], is_active |-> k \in active,
         volume_percent |-> DeviceVolumes[((c + k) % Len(DeviceVolumes)) + 1]]]

Rosters ==
    {Roster(n, active, c) : n \in 0..MaxDevices, active \in SUBSET (1..MaxDevices),
                            c \in 1..Len(DeviceVolumes)}

DeviceArgs == {PyNone, PyStr("")} \cup {PyStr(DeviceNames[k]) : k \in 1..MaxDevices}
VolumeArgs ==
    {PyInt(n) : n \in {-101, -60, 0, 60, 101}} \cup {PyBool(TRUE), PyStr("60")}
RestartArgs == {PyInt(0), PyInt(2), PyStr("2")}
ProgressValues == {1500, 2500}
RepeatArgs ==
    {PyStr(x) : x \in {"track", "context", "off", "all"}} \cup {PyNone, PyInt(1)}
ShuffleArgs ==
    {PyBool(TRUE), PyBool(FALSE), PyInt(0), PyInt(1), PyInt(2), PyStr("True"), PyNone}
LimitArgs == {PyInt(5), PyStr("5")}
QueryArgs == {PyStr("name"), PyStr("")}

\* how many top tracks each artist has
TrackCounts ==
    {[k \in 1..MaxItems |-> t] : t \in 0..MaxItems} \cup {[k \in 1..MaxItems |-> k - 1]}

NoEnv ==
    [faults |-> <<>>, roster |-> <<>>, present |-> FALSE, progress_ms |-> 0,
     repeat_state |-> "off", shuffle_state |-> FALSE,
     n |-> 0, m |-> 0, nt |-> [k \in 1..MaxItems |-> 0]]

Faulty(n) == {[NoEnv EXCEPT !.faults = o] : o \in Oracles(n, MaxFaults)}

\* a remote service with a playback session, or (present = FALSE) without
WithSession(envs) ==
    {[e EXCEPT !.present = p, !.m = m] : e \in envs, p \in BOOLEAN, m \in 0..MaxItems}

\* a remote service whose playback session, if any, is in some mode
WithPlayback(envs) ==
    {[e EXCEPT !.present = p, !.repeat_state = x, !.shuffle_state = y] :
        e \in envs, p \in BOOLEAN, x \in {"track", "context", "off"}, y \in BOOLEAN}

\* a remote service that lists n objects
WithList(envs) == {[e EXCEPT !.n = n] : e \in envs, n \in 0..MaxItems}

----------------------------------------------------------------------------
(* The state machine. *)

NoOp == [name |-> "", q |-> PyNone, arg |-> PyNone, dev |-> PyNone]
NoOutcome == Return(<<>>, PyNone).out

\* the calls of one method with its arguments drawn from qs, args and devs
Requests(name, qs, args, devs) == [name : {name}, q : qs, arg : args, dev : devs]

\* every call a caller makes
AllRequests ==
    Requests("increase_volume", {PyNone}, VolumeArgs, DeviceArgs)
    \cup Requests("decrease_volume", {PyNone}, VolumeArgs, DeviceArgs)
    \cup Requests("set_volume", {PyNone}, VolumeArgs, DeviceArgs)
    \cup Requests("get_volume", {PyNone}, {PyNone}, DeviceArgs)
    \cup Requests("get_current_song_info", {PyNone}, {PyNone}, {PyNone})
    \cup Requests("get_current_album_info", {PyNone}, {PyNone}, {PyNone})
    \cup Requests("get_current_song_artist", {PyNone}, {PyNone}, {PyNone})
    \cup Requests("get_current_album_release_date", {PyNone}, {PyNone}, {PyNone})
    \cup Requests("play", {PyNone}, {PyNone}, DeviceArgs)
    \cup Requests("pause", {PyNone}, {PyNone}, DeviceArgs)
    \cup Requests("switch_play_pause", {PyNone}, {PyNone}, DeviceArgs)
    \cup Requests("next_song", {PyNone}, {PyNone}, DeviceArgs)
    \cup Requests("previous_song", {PyNone}, RestartArgs, DeviceArgs)
    \cup Requests("restart_song", {PyNone}, {PyNone}, DeviceArgs)
    \cup Requests("get_repeat_state", {PyNone}, {PyNone}, {PyNone})
    \cup Requests("set_repeat_state", {PyNone}, RepeatArgs, DeviceArgs)
    \cup Requests("next_repeat_state", {PyNone}, {PyNone}, DeviceArgs)
    \cup Requests("get_shuffle_state", {PyNone}, {PyNone}, {PyNone})
    \cup Requests("set_shuffle_state", {PyNone}, ShuffleArgs, DeviceArgs)
    \cup Requests("switch_shuffle_state", {PyNone}, {PyNone}, DeviceArgs)
    \cup Requests("play_song", QueryArgs, {PyNone}, DeviceArgs)
    \cup Requests("play_album", QueryArgs, {PyNone}, DeviceArgs)
    \cup Requests("play_artist", QueryArgs, {PyNone}, DeviceArgs)
    \cup Requests("play_genre", QueryArgs, LimitArgs, DeviceArgs)
    \cup Requests("play_playlist", QueryArgs, {PyNone}, DeviceArgs)
    \cup Requests("play_similar_from_current_artist", {PyNone}, LimitArgs, DeviceArgs)
    \cup Requests("play_similar_from_current_track", {PyNone}, LimitArgs, DeviceArgs)
    \cup Requests("play_recently_played", {PyNone}, LimitArgs, DeviceArgs)
    \cup Requests("play_top_tracks", {PyNone}, LimitArgs, DeviceArgs)
    \cup Requests("play_top_artists", {PyNone}, LimitArgs, DeviceArgs)
    \cup Requests("save_current_song", {PyNone}, {PyNone}, {PyNone})
    \cup Requests("delete_current_song", {PyNone}, {PyNone}, {PyNone})
    \cup Requests("save_current_album", {PyNone}, {PyNone}, {PyNone})
    \cup Requests("delete_current_album", {PyNone}, {PyNone}, {PyNone})

Init ==
    /\ pc = "idle"
    /\ op = NoOp
    /\ calls = <<>>
    /\ outcome = NoOutcome

\* a caller calls a method of the facade
Invoke ==
    /\ pc = "idle"
    /\ pc' = "called"
    /\ op' \in AllRequests
    /\ UNCHANGED <<calls, outcome>>

\* the method runs from a fresh request against the remote service env
Start(env) == [calls |-> <<>>, env |-> env]

\* the method called is name
Called(name) == pc = "called" /\ op.name = name

\* the method has run to its end with result r
Finish(r) ==
    /\ pc' = "done"
    /\ calls' = r.st.calls
    /\ outcome' = r.out
    /\ UNCHANGED op

\* the caller takes the outcome; nothing of the request is kept
Acknowledge ==
    /\ pc = "done"
    /\ pc' = "idle"
    /\ op' = NoOp
    /\ calls' = <<>>
    /\ outcome' = NoOutcome

IncreaseVolume ==
    /\ Called("increase_volume")
    /\ \E roster \in Rosters, e \in Faulty(2) :
        Finish(increase_volume(op.arg, op.dev, Start([e EXCEPT !.roster = roster])))

DecreaseVolume ==
    /\ Called("decrease_volume")
    /\ \E roster \in Rosters, e \in Faulty(2) :
        Finish(decrease_volume(op.arg, op.dev, Start([e EXCEPT !.roster = roster])))

SetVolume ==
    /\ Called("set_volume")
    /\ \E e \in Faulty(1) :
        Finish(set_volume(op.arg, op.dev, Start(e)))

GetVolume ==
    /\ Called("get_volume")
    /\ \E roster \in Rosters, e \in Faulty(1) :
        Finish(get_volume(op.dev, Start([e EXCEPT !.roster = roster])))

GetCurrentSongInfo ==
    /\ Called("get_current_song_info")
    /\ \E e \in WithSession(Faulty(1)) :
        Finish(get_current_song_info(Start(e)))

GetCurrentAlbumInfo ==
    /\ Called("get_current_album_info")
    /\ \E e \in WithSession(Faulty(1)) :
        Finish(get_current_album_info(Start(e)))

GetCurrentSongArtist ==
    /\ Called("get_current_song_artist")
    /\ \E e \in WithSession(Faulty(1)) :
        Finish(get_current_song_artist(Start(e)))

GetCurrentAlbumReleaseDate ==
    /\ Called("get_current_album_release_date")
    /\ \E e \in WithSession(Faulty(1)) :
        Finish(get_current_album_release_date(Start(e)))

Play ==
    /\ Called("play")
    /\ \E e \in Faulty(1) :
        Finish(play(op.dev, Start(e)))

Pause ==
    /\ Called("pause")
    /\ \E e \in Faulty(1) :
        Finish(pause(op.dev, Start(e)))

SwitchPlayPause ==
    /\ Called("switch_play_pause")
    /\ \E e \in Faulty(2) :
        Finish(switch_play_pause(op.dev, Start(e)))

NextSong ==
    /\ Called("next_song")
    /\ \E e \in Faulty(1) :
        Finish(next_song(op.dev, Start(e)))

PreviousSong ==
    /\ Called("previous_song")
    /\ \E ms \in ProgressValues, e \in WithSession(Faulty(3)) :
        Finish(previous_song(op.arg, op.dev, Start([e EXCEPT !.progress_ms = ms])))

RestartSong ==
    /\ Called("restart_song")
    /\ \E e \in Faulty(1) :
        Finish(restart_song(op.dev, Start(e)))

GetRepeatState ==
    /\ Called("get_repeat_state")
    /\ \E e \in WithPlayback(Faulty(1)) :
        Finish(get_repeat_state(Start(e)))

SetRepeatState ==
    /\ Called("set_repeat_state")
    /\ \E e \in Faulty(1) :
        Finish(set_repeat_state(op.arg, op.dev, Start(e)))

NextRepeatState ==
    /\ Called("next_repeat_state")
    /\ \E e \in WithPlayback(Faulty(2)) :
        Finish(next_repeat_state(op.dev, Start(e)))

GetShuffleState ==
    /\ Called("get_shuffle_state")
    /\ \E e \in WithPlayback(Faulty(1)) :
        Finish(get_shuffle_state(Start(e)))

SetShuffleState ==
    /\ Called("set_shuffle_state")
    /\ \E e \in Faulty(1) :
        Finish(set_shuffle_state(op.arg, op.dev, Start(e)))

SwitchShuffleState ==
    /\ Called("switch_shuffle_state")
    /\ \E e \in WithPlayback(Faulty(2)) :
        Finish(switch_shuffle_state(op.dev, Start(e)))

PlaySong ==
    /\ Called("play_song")
    /\ \E e \in WithList(Faulty(2)) :
        Finish(play_song(op.q, op.dev, Start(e)))

PlayAlbum ==
    /\ Called("play_album")
    /\ \E e \in WithList(Faulty(3)) :
        Finish(play_album(op.q, op.dev, Start(e)))

PlayArtist ==
    /\ Called("play_artist")
    /\ \E e \in WithList(Faulty(2)) :
        Finish(play_artist(op.q, op.dev, Start(e)))

PlayGenre ==
    /\ Called("play_genre")
    /\ \E e \in WithList(Faulty(2)) :
        Finish(play_genre(op.q, op.arg, op.dev, Start(e)))

PlayPlaylist ==
    /\ Called("play_playlist")
    /\ \E e \in WithList(Faulty(2)) :
        Finish(play_playlist(op.q, op.dev, Start(e)))

PlaySimilarFromCurrentArtist ==
    /\ Called("play_similar_from_current_artist")
    /\ \E e \in WithList(WithSession(Faulty(3))) :
        Finish(play_similar_from_current_artist(op.arg, op.dev, Start(e)))

PlaySimilarFromCurrentTrack ==
    /\ Called("play_similar_from_current_track")
    /\ \E e \in WithList(WithSession(Faulty(3))) :
        Finish(play_similar_from_current_track(op.arg, op.dev, Start(e)))

PlayRecentlyPlayed ==
    /\ Called("play_recently_played")
    /\ \E e \in WithList(Faulty(2)) :
        Finish(play_recently_played(op.arg, op.dev, Start(e)))

PlayTopTracks ==
    /\ Called("play_top_tracks")
    /\ \E e \in WithList(Faulty(2)) :
        Finish(play_top_tracks(op.arg, op.dev, Start(e)))

PlayTopArtists ==
    /\ Called("play_top_artists")
    /\ \E nt \in TrackCounts, e \in WithList(Faulty(MaxItems + 3)) :
        Finish(play_top_artists(op.arg, op.dev, Start([e EXCEPT !.nt = nt])))

SaveCurrentSong ==
    /\ Called("save_current_song")
    /\ \E e \in WithSession(Faulty(2)) :
        Finish(save_current_song(Start(e)))

DeleteCurrentSong ==
    /\ Called("delete_current_song")
    /\ \E e \in WithSession(Faulty(2)) :
        Finish(delete_current_song(Start(e)))

SaveCurrentAlbum ==
    /\ Called("save_current_album")
    /\ \E e \in WithSession(Faulty(2)) :
        Finish(save_current_album(Start(e)))

DeleteCurrentAlbum ==
    /\ Called("delete_current_album")
    /\ \E e \in WithList(WithSession(Faulty(3))) :
        Finish(delete_current_album(Start(e)))

Next ==
    \/ Invoke \/ Acknowledge
    \/ IncreaseVolume \/ DecreaseVolume \/ SetVolume \/ GetVolume
    \/ GetCurrentSongInfo \/ GetCurrentAlbumInfo
    \/ GetCurrentSongArtist \/ GetCurrentAlbumReleaseDate
    \/ Play \/ Pause \/ SwitchPlayPause \/ NextSong \/ PreviousSong \/ RestartSong
    \/ GetRepeatState \/ SetRepeatState \/ NextRepeatState
    \/ GetShuffleState \/ SetShuffleState \/ SwitchShuffleState
    \/ PlaySong \/ PlayAlbum \/ PlayArtist \/ PlayGenre \/ PlayPlaylist
    \/ PlaySimilarFromCurrentArtist \/ PlaySimilarFromCurrentTrack
    \/ PlayRecentlyPlayed \/ PlayTopTracks \/ PlayTopArtists
    \/ SaveCurrentSong \/ DeleteCurrentSong \/ SaveCurrentAlbum \/ DeleteCurrentAlbum

Spec == Init /\ [][Next]_vars

----------------------------------------------------------------------------
(* next_repeat_state called several times in a row against a remote        *)
(* service that keeps its repeat state: calls is not emptied between the   *)
(* rounds, and the service reports the state of the last repeat call it    *)
(* accepted, or the state it started in.                                   *)

RepeatStates == {"track", "context", "off"}

\* the repeat state of the remote service after the first k calls, x0 being
\* the state it started in
RECURSIVE UpstreamRepeat(_, _)
UpstreamRepeat(k, x0) ==
    IF k = 0 THEN x0
    ELSE IF calls[k].call.fn = "repeat" /\ calls[k].res.ok THEN calls[k].call.arg.s
    ELSE UpstreamRepeat(k - 1, x0)

\* the answers to the two calls of a round: the read succeeds, the repeat
\* call succeeds or fails
RoundFaults == {<<>>, <<Ok(NoData), NotFound>>, <<Ok(NoData), ServerError>>}

\* the rounds started so far
Rounds == Cardinality({k \in 1..Len(calls) : calls[k].call.fn = "current_playback"})

InvokeNextRepeatState ==
    /\ pc = "idle"
    /\ Rounds < MaxRounds
    /\ pc' = "called"
    /\ op' \in Requests("next_repeat_state", {PyNone}, {PyNone}, {PyNone, PyStr("d1")})
    /\ UNCHANGED <<calls, outcome>>

NextRepeatStateRound ==
    /\ Called("next_repeat_state")
    /\ \E x0 \in RepeatStates, o \in RoundFaults :
        /\ calls # <<>> => x0 = calls[1].res.data.repeat_state
        /\ Finish(next_repeat_state(op.dev,
                     [calls |-> calls,
                      env |-> [NoEnv EXCEPT
                                 !.faults = [k \in 1..Len(calls) |-> Ok(NoData)] \o o,
                                 !.present = TRUE,
                                 !.repeat_state = UpstreamRepeat(Len(calls), x0)]]))

\* the caller takes the outcome; the remote service keeps its state
AcknowledgeRound ==
    /\ pc = "done"
    /\ pc' = "idle"
    /\ op' = NoOp
    /\ outcome' = NoOutcome
    /\ UNCHANGED calls

NextRounds == InvokeNextRepeatState \/ NextRepeatStateRound \/ AcknowledgeRound

RoundsSpec == Init /\ [][NextRounds]_vars

----------------------------------------------------------------------------
(* Vocabulary of the properties. *)

Finished(name) == pc = "done" /\ op.name = name

CallFn(k) == calls[k].call.fn
Failed(k) == ~calls[k].res.ok

\* call k was answered with a fault of this status
Status(k, status) == Failed(k) /\ calls[k].res.http_status = status

\* the fault of call k reached the caller as it was raised
Surfaced(k) ==
    /\ outcome.kind = "SpotifyException"
    /\ outcome.at = k
    /\ outcome.http_status = calls[k].res.http_status
    /\ outcome.msg = calls[k].res.msg

InRange(v) == IF v > 100 THEN 100 ELSE IF v < 0 THEN 0 ELSE v

\* a device id was given (an empty id counts as none)
Given(dev) == dev.t = "str" /\ dev.s # ""

\* the place in the roster of the device a volume method is aimed at, 0 if
\* there is none: the device with the given id, else the first active one
TargetOf(dev, roster) ==
    LET hit == {k \in 1..Len(roster) :
                    IF Given(dev) THEN roster[k].id = dev.s ELSE roster[k].is_active}
    IN  IF hit = {} THEN 0 ELSE CHOOSE k \in hit : \A j \in hit : k <= j

----------------------------------------------------------------------------
(* C1: every volume the facade sends to the remote volume call, whatever   *)
(* the method, its argument and the volume the device reports, lies in     *)
(* 0..100.                                                                 *)
VolumeAlwaysInRange ==
    \A k \in 1..Len(calls) :
        CallFn(k) = "volume" =>
            /\ calls[k].call.arg.t = "int"
            /\ calls[k].call.arg.i >= 0
            /\ calls[k].call.arg.i <= 100

\* increase_volume on a device that reports more than 100 sends 100
VolumeSaturatedWitness ==
    /\ Finished("increase_volume")
    /\ Len(calls) = 2
    /\ calls[1].res.ok
    /\ TargetOf(op.dev, calls[1].res.data.devices) # 0
    /\ calls[1].res.data.devices[TargetOf(op.dev, calls[1].res.data.devices)].volume_percent > 100
    /\ IntOf(op.arg) > 0
    /\ calls[2].call.arg.i = 100

(* C2: set_volume(v) with v outside 0..100 raises TypeError and            *)
(* issues no remote call; with v inside it issues one volume call carrying *)
(* v.                                                                      *)
SetVolumeRejectsOutOfRange ==
    (Finished("set_volume") /\ IsInstanceInt(op.arg)) =>
        IF IntOf(op.arg) < 0 \/ IntOf(op.arg) > 100
        THEN outcome.kind = "TypeError" /\ calls = <<>>
        ELSE /\ Len(calls) = 1
             /\ CallFn(1) = "volume"
             /\ calls[1].call.arg = PyInt(IntOf(op.arg))

(* C3: for a device volume c in 0..100 and an integer delta,               *)
(* increase_volume(delta) reads the roster, takes the volume of the device *)
(* with the given id, else of the active device, and sends that device id  *)
(* the volume c + delta brought into 0..100; it raises nothing unless the  *)
(* volume call itself fails.                                               *)
IncreaseVolumeSendsClampedSum ==
    (/\ Finished("increase_volume")
     /\ IsInstanceInt(op.arg)
     /\ Len(calls) >= 1
     /\ calls[1].res.ok
     /\ TargetOf(op.dev, calls[1].res.data.devices) # 0) =>
        LET roster == calls[1].res.data.devices
            c == roster[TargetOf(op.dev, roster)].volume_percent
        IN  (c >= 0 /\ c <= 100) =>
                /\ CallFn(1) = "devices"
                /\ Len(calls) = 2
                /\ CallFn(2) = "volume"
                /\ calls[2].call.arg = PyInt(InRange(c + IntOf(op.arg)))
                /\ calls[2].call.dev = op.dev
                /\ calls[2].res.ok => outcome.kind = "return"

\* increase_volume(60, "d2") with d2 at 100 and another device active at a
\* different volume has sent 100 to d2
IncreaseVolumeWitness ==
    /\ Finished("increase_volume")
    /\ op.arg = PyInt(60)
    /\ op.dev = PyStr("d2")
    /\ Len(calls) = 2
    /\ Len(calls[1].res.data.devices) = 2
    /\ calls[1].res.data.devices[1].is_active
    /\ calls[1].res.data.devices[1].volume_percent = 40
    /\ calls[1].res.data.devices[2].volume_percent = 100
    /\ calls[2].call.arg = PyInt(100)
    /\ outcome.kind = "return"

----------------------------------------------------------------------------
(* Transport. *)

Transport ==
    {"play", "pause", "switch_play_pause", "next_song", "previous_song", "restart_song"}

\* call k failed with the conflict status, a 403 that is not "Forbidden"
Conflict(k) == Status(k, 403) /\ ~InMsg("Forbidden", calls[k].res.msg)

\* call k failed with a status that means there is no active device
NoActiveDevice(k) ==
    Status(k, 404) \/ (Status(k, 403) /\ InMsg("Forbidden", calls[k].res.msg))

(* C4 as claimed: switch_play_pause whose start-playback call fails with   *)
(* the conflict status issues exactly one pause call after it and gives    *)
(* the caller no error; when start-playback succeeds it issues no pause.   *)
TogglePausesWithoutError ==
    Finished("switch_play_pause") =>
        /\ CallFn(1) = "start_playback"
        /\ Conflict(1) =>
            /\ Len(calls) = 2
            /\ CallFn(2) = "pause_playback"
            /\ outcome.kind = "return"
        /\ calls[1].res.ok => Len(calls) = 1

(* C4, amended: switch_play_pause whose start-playback call fails with the *)
(* conflict status issues exactly one pause call after it, on the same     *)
(* device, and gives the caller no error unless that pause call fails: the *)
(* fault of the pause call reaches the caller unchanged.  When             *)
(* start-playback succeeds no pause call is issued.                        *)
TogglePausesOnConflict ==
    Finished("switch_play_pause") =>
        /\ CallFn(1) = "start_playback"
        /\ calls[1].call.dev = op.dev
        /\ Conflict(1) =>
            /\ Len(calls) = 2
            /\ CallFn(2) = "pause_playback"
            /\ calls[2].call.dev = op.dev
            /\ IF Failed(2) THEN Surfaced(2) ELSE outcome.kind = "return"
        /\ ~Conflict(1) => Len(calls) = 1
        /\ calls[1].res.ok => outcome.kind = "return"

\* the toggle has paused after "already playing" and returned
TogglePausedWitness ==
    /\ Finished("switch_play_pause")
    /\ Len(calls) = 2
    /\ Conflict(1)
    /\ CallFn(2) = "pause_playback"
    /\ calls[2].res.ok
    /\ outcome.kind = "return"

(* C5: previous_song whose previous-track call fails with the conflict     *)
(* status issues next a seek to position 0 on the same device, and the     *)
(* fault of the previous-track call does not reach the caller.             *)
PreviousDegradesToRestart ==
    Finished("previous_song") =>
        \A k \in 1..Len(calls) :
            (CallFn(k) = "previous_track" /\ Conflict(k)) =>
                /\ Len(calls) = k + 1
                /\ CallFn(k + 1) = "seek_track"
                /\ calls[k + 1].call.arg = PyInt(0)
                /\ calls[k + 1].call.dev = op.dev
                /\ calls[k + 1].call.dev = calls[k].call.dev
                /\ ~(outcome.kind = "SpotifyException" /\ outcome.at = k)
                /\ calls[k + 1].res.ok => outcome.kind = "return"

\* previous_song on a named device has restarted the song for want of a
\* previous one
PreviousRestartedWitness ==
    /\ Finished("previous_song")
    /\ Given(op.dev)
    /\ Len(calls) = 2
    /\ CallFn(1) = "previous_track"
    /\ Conflict(1)
    /\ CallFn(2) = "seek_track"
    /\ outcome.kind = "return"

(* C6 as claimed: a transport method returns normally, raising nothing,    *)
(* when the remote service answers its call with the "no active device"    *)
(* status.                                                                 *)
TransportSwallowsNoActiveDevice ==
    (pc = "done" /\ op.name \in Transport) =>
        \A k \in 1..Len(calls) :
            (k = Len(calls) /\ NoActiveDevice(k)) => outcome.kind = "return"

(* C7: in a transport method, a remote fault whose status is neither 403   *)
(* nor 404 reaches the caller as that same fault, status and message       *)
(* unchanged, and no remote call follows it.                               *)
TransportPropagatesOtherFaults ==
    (pc = "done" /\ op.name \in Transport) =>
        \A k \in 1..Len(calls) :
            (Failed(k) /\ ~Status(k, 403) /\ ~Status(k, 404)) =>
                Surfaced(k) /\ k = Len(calls)

\* next_song has let a server error through
TransportFaultWitness ==
    /\ Finished("next_song")
    /\ Len(calls) = 1
    /\ Status(1, 500)
    /\ Surfaced(1)

----------------------------------------------------------------------------
(* Validation. *)

IsRepeatState(v) == v.t = "str" /\ v.s \in {"track", "context", "off"}

\* equal to True or to False: a bool, or the number 1 or 0, which Python
\* holds equal to them
IsShuffleState(v) == v.t = "bool" \/ (v.t = "int" /\ v.i \in {0, 1})

(* C8: set_repeat_state with a value outside 'track', 'context', 'off' and *)
(* set_shuffle_state with a value equal to neither True nor False raise    *)
(* TypeError and issue no remote call, whatever the device and the state   *)
(* of the remote service; with a value inside they issue exactly one       *)
(* remote call, carrying that value unchanged to the given device.         *)
ModeSettersValidate ==
    /\ Finished("set_repeat_state") =>
        IF IsRepeatState(op.arg)
        THEN /\ Len(calls) = 1
             /\ CallFn(1) = "repeat"
             /\ calls[1].call.arg = op.arg
             /\ calls[1].call.dev = op.dev
             /\ outcome.kind # "TypeError"
        ELSE outcome.kind = "TypeError" /\ calls = <<>>
    /\ Finished("set_shuffle_state") =>
        IF IsShuffleState(op.arg)
        THEN /\ Len(calls) = 1
             /\ CallFn(1) = "shuffle"
             /\ calls[1].call.arg = op.arg
             /\ calls[1].call.dev = op.dev
             /\ outcome.kind # "TypeError"
        ELSE outcome.kind = "TypeError" /\ calls = <<>>

\* set_repeat_state has rejected a string that names no repeat state
ModeRejectedWitness ==
    /\ Finished("set_repeat_state")
    /\ op.arg = PyStr("all")
    /\ outcome.kind = "TypeError"
    /\ calls = <<>>

\* the texts of the TypeErrors the argument checks raise
ArgumentCheckTexts ==
    {"volume_percent is not an integer", "restart_time is not an integer",
     "repeat_state must be 'track', 'context' or 'off'.",
     "shuffle_state must be True or False.", LimitText}

SearchAndPlay == {"play_song", "play_album", "play_artist", "play_playlist"}

\* the TypeError is one the facade raises itself, with a raise statement
RaisedByFacade ==
    outcome.kind = "TypeError" /\ outcome.text # "'NoneType' object is not subscriptable"

(* C9 as claimed: whenever a method raises the invalid-argument error      *)
(* (TypeError) it has issued no remote call before.                        *)
TypeErrorBeforeAnyCall ==
    (pc = "done" /\ RaisedByFacade) => calls = <<>>

(* C9, amended: a TypeError raised by an argument check (a volume, restart *)
(* time or limit that is not an integer, a repeat or shuffle state outside *)
(* its enumeration) is raised before any remote call.  The other           *)
(* TypeErrors come after remote calls: a search-and-play method turns a    *)
(* remote 400 "No search query" fault into one, play_genre raises one      *)
(* after recommendations returned no track and the genre seeds were        *)
(* fetched, and previous_song with a restart time lets one escape when     *)
(* nothing is playing.                                                     *)
ArgumentChecksBeforeAnyCall ==
    (pc = "done" /\ outcome.kind = "TypeError") =>
        IF outcome.text \in ArgumentCheckTexts THEN calls = <<>>
        ELSE /\ calls # <<>>
             /\ \/ /\ op.name \in SearchAndPlay
                   /\ Status(Len(calls), 400)
                   /\ InMsg("No search query", calls[Len(calls)].res.msg)
                \/ /\ op.name = "play_genre"
                   /\ Len(calls) = 2
                   /\ CallFn(1) = "recommendations"
                   /\ calls[1].res.ok /\ calls[1].res.data.items = <<>>
                   /\ CallFn(2) = "recommendation_genre_seeds"
                \/ /\ op.name = "previous_song"
                   /\ Len(calls) = 1
                   /\ CallFn(1) = "currently_playing"
                   /\ calls[1].res.ok /\ ~calls[1].res.data.present

\* increase_volume has rejected a string without asking for the devices
ArgumentCheckWitness ==
    /\ Finished("increase_volume")
    /\ op.arg.t = "str"
    /\ outcome.kind = "TypeError"
    /\ calls = <<>>

(* C10: when currently_playing answers that nothing is playing,            *)
(* get_current_song_info raises ConnectionError (not connected), and each  *)
(* method that resolves the current song first raises that same error      *)
(* having issued no other call: no library write, no recommendation, no    *)
(* playback.                                                               *)
ResolvesCurrent ==
    {"get_current_song_info", "get_current_album_info", "get_current_song_artist",
     "get_current_album_release_date", "save_current_song",
     "delete_current_song", "save_current_album", "delete_current_album",
     "play_similar_from_current_artist", "play_similar_from_current_track"}

NotConnectedStopsTheMethod ==
    (/\ pc = "done"
     /\ op.name \in ResolvesCurrent
     /\ calls # <<>>
     /\ calls[1].res.ok
     /\ ~calls[1].res.data.present) =>
        /\ CallFn(1) = "currently_playing"
        /\ Len(calls) = 1
        /\ outcome.kind = "ConnectionError"
        /\ outcome.text = "User not connected to Spotify "

\* delete_current_album has stopped at the status read
NotConnectedWitness ==
    /\ Finished("delete_current_album")
    /\ Len(calls) = 1
    /\ calls[1].res.ok
    /\ ~calls[1].res.data.present
    /\ outcome.kind = "ConnectionError"

----------------------------------------------------------------------------
(* C11: in play_song, play_album, play_artist and play_playlist, when the  *)
(* search answers with no item the method raises IndexError ("There is no  *)
(* results.") having issued no start_playback; when it answers with at     *)
(* least one item the next call is start_playback on the given device with *)
(* the URI of the first item (the only entry of uris for play_song, the    *)
(* context_uri for the others).                                            *)
SearchPlayStartsFirstResult ==
    (/\ pc = "done"
     /\ op.name \in SearchAndPlay
     /\ calls # <<>>
     /\ calls[1].res.ok) =>
        LET items == calls[1].res.data.items
        IN  /\ CallFn(1) = "search"
            /\ calls[1].call.q = op.q
            /\ IF Len(items) = 0
               THEN /\ Len(calls) = 1
                    /\ outcome.kind = "IndexError"
                    /\ outcome.text = "There is no results."
               ELSE /\ Len(calls) >= 2
                    /\ CallFn(2) = "start_playback"
                    /\ calls[2].call.dev = op.dev
                    /\ IF op.name = "play_song"
                       THEN /\ calls[2].call.type = "uris"
                            /\ calls[2].call.uris = <<items[1].uri>>
                       ELSE /\ calls[2].call.type = "context_uri"
                            /\ calls[2].call.ctx = items[1].uri
                    /\ \A k \in 3..Len(calls) : CallFn(k) # "start_playback"

\* play_playlist has started the first of two playlists found
SearchPlayFirstWitness ==
    /\ Finished("play_playlist")
    /\ Len(calls) = 2
    /\ Len(calls[1].res.data.items) = 2
    /\ calls[1].res.data.items[1].uri # calls[1].res.data.items[2].uri
    /\ calls[2].call.ctx = calls[1].res.data.items[1].uri
    /\ outcome.kind = "return"

----------------------------------------------------------------------------
(* Radio. *)

Radio ==
    {"play_top_artists", "play_top_tracks", "play_recently_played",
     "play_similar_from_current_artist"}

\* the calls whose answer lists the tracks a radio method plays
ListsTracks ==
    {"artist_top_tracks", "current_user_top_tracks", "current_user_recently_played",
     "recommendations"}

\* the calls a radio method gathers its tracks with
Gathers == ListsTracks \cup {"current_user_top_artists", "currently_playing"}

\* the URIs of the list call k returned, in the order of the list
Listed(k) ==
    [j \in 1..Len(calls[k].res.data.items) |-> calls[k].res.data.items[j].uri]

\* the URIs the track-listing calls among the first k calls returned, in the
\* order they were returned
RECURSIVE GatheredUris(_)
GatheredUris(k) ==
    IF k = 0 THEN <<>>
    ELSE IF CallFn(k) \in ListsTracks /\ calls[k].res.ok
    THEN GatheredUris(k - 1) \o Listed(k)
    ELSE GatheredUris(k - 1)

AllSucceeded == \A k \in 1..Len(calls) : calls[k].res.ok

(* C12 as claimed: a radio method all of whose remote calls succeed issues *)
(* a pause call, then its gather calls, then exactly one start_playback    *)
(* carrying every gathered URI, then a shuffle call on the same device as  *)
(* the start_playback.                                                     *)
RadioPausesGathersPlaysShuffles ==
    (/\ pc = "done"
     /\ op.name \in Radio
     /\ IsInstanceInt(op.arg)
     /\ outcome.kind = "return"
     /\ AllSucceeded) =>
        LET n == Len(calls)
        IN  /\ n >= 4
            /\ CallFn(1) = "pause_playback"
            /\ \A k \in 2..(n - 2) : CallFn(k) \in Gathers
            /\ CallFn(n - 1) = "start_playback"
            /\ calls[n - 1].call.uris = GatheredUris(n)
            /\ calls[n - 1].call.dev = op.dev
            /\ CallFn(n) = "shuffle"
            /\ calls[n].call.dev = calls[n - 1].call.dev

----------------------------------------------------------------------------
(* URIs. *)

\* the calls that take URIs to play, save or delete
UriSinks ==
    {"start_playback", "current_user_saved_tracks_add",
     "current_user_saved_tracks_delete", "current_user_saved_albums_add"}

\* the URIs in the answer of call k
UrisIn(k) ==
    IF ~calls[k].res.ok THEN {}
    ELSE LET data == calls[k].res.data
         IN  {data.items[j].uri : j \in 1..Len(data.items)}
             \cup (IF CallFn(k) = "currently_playing" /\ data.present
                   THEN {data.item.uri, data.item.album.uri}
                        \cup {data.item.artists[j].uri : j \in 1..Len(data.item.artists)}
                   ELSE {})

\* the URIs the remote service returned in the first k calls
ReturnedUris(k) == UNION {UrisIn(j) : j \in 1..k}

(* C13: every URI passed to start_playback or to a library add or delete   *)
(* call, as context_uri or in uris, is one the remote service returned in  *)
(* an earlier call of the same method, and a start_playback of several     *)
(* tracks carries the URIs of the track lists returned before it, in the   *)
(* order they were returned.                                               *)
UrisComeFromTheService ==
    pc = "done" =>
        \A k \in 1..Len(calls) :
            CallFn(k) \in UriSinks =>
                LET uris == calls[k].call.uris
                IN  /\ \A j \in 1..Len(uris) : uris[j] \in ReturnedUris(k - 1)
                    /\ calls[k].call.type = "context_uri" =>
                            calls[k].call.ctx \in ReturnedUris(k - 1)
                    /\ (CallFn(k) = "start_playback" /\ Len(uris) > 1) =>
                            uris = GatheredUris(k - 1)

\* play_top_artists has played the two tracks of its first artist and the
\* two of its second, in that order
UrisInOrderWitness ==
    /\ Finished("play_top_artists")
    /\ Len(calls) = 5
    /\ CallFn(4) = "start_playback"
    /\ Len(calls[2].res.data.items) = 2
    /\ Len(calls[3].res.data.items) = 2
    /\ calls[4].call.uris = Listed(2) \o Listed(3)
    /\ calls[4].call.uris # Listed(3) \o Listed(2)
    /\ calls[2].res.data.items[1].uri # calls[2].res.data.items[2].uri

----------------------------------------------------------------------------
\* the state after x in the cycle track -> context -> off -> track
NextInCycle(x) ==
    IF x = "track" THEN "context" ELSE IF x = "context" THEN "off" ELSE "track"

(* C14: every repeat call next_repeat_state issues carries the successor,  *)
(* in the cycle track -> context -> off -> track, of the repeat state the  *)
(* read before it returned, hence one of the three states; and when three  *)
(* rounds in a row succeed against a remote service that applies each      *)
(* repeat call, the third repeat call puts the service back in the state   *)
(* the first round read.                                                   *)
RepeatStateCycles ==
    /\ \A k \in 1..Len(calls) :
        calls[k].call.fn = "repeat" =>
            /\ k > 1
            /\ calls[k - 1].call.fn = "current_playback"
            /\ calls[k - 1].res.ok
            /\ calls[k].call.arg = PyStr(NextInCycle(calls[k - 1].res.data.repeat_state))
            /\ calls[k].call.arg.s \in RepeatStates
    /\ \A k \in 1..(Len(calls) - 5) :
        (/\ calls[k].call.fn = "current_playback"
         /\ \A j \in k..(k + 5) : calls[j].res.ok) =>
            /\ calls[k + 5].call.fn = "repeat"
            /\ UpstreamRepeat(k + 5, calls[1].res.data.repeat_state)
                    = calls[k].res.data.repeat_state

\* three rounds from 'context' have sent 'off', 'track' and 'context'
RepeatCycleWitness ==
    /\ pc = "done"
    /\ Len(calls) = 6
    /\ \A k \in 1..6 : calls[k].res.ok
    /\ calls[1].res.data.repeat_state = "context"
    /\ calls[2].call.arg = PyStr("off")
    /\ calls[4].call.arg = PyStr("track")
    /\ calls[6].call.arg = PyStr("context")
    /\ outcome.kind = "return"

----------------------------------------------------------------------------
\* method, failed call, call issued in its place
Fallbacks ==
    {<<"switch_play_pause", "start_playback", "pause_playback">>,
     <<"previous_song", "previous_track", "seek_track">>}

(* C15: a remote call that fails is the last call its method issues, and   *)
(* the method then does not return normally: nothing is retried and no     *)
(* call follows to undo what earlier calls did.  The only calls issued     *)
(* after a failure are the fallbacks of switch_play_pause (pause) and of   *)
(* previous_song (seek to 0) after a 403 other than "Forbidden", a fault   *)
(* that does not reach the caller.                                         *)
FaultEndsTheMethod ==
    pc = "done" =>
        \A k \in 1..Len(calls) :
            Failed(k) =>
                IF k = Len(calls) THEN outcome.kind # "return"
                ELSE /\ Conflict(k)
                     /\ <<op.name, CallFn(k), CallFn(k + 1)>> \in Fallbacks
                     /\ k + 1 = Len(calls)

\* play_album has started the playback, failed to set the shuffle state and
\* stopped there
FaultAfterStartWitness ==
    /\ Finished("play_album")
    /\ Len(calls) = 3
    /\ CallFn(2) = "start_playback"
    /\ calls[2].res.ok
    /\ CallFn(3) = "shuffle"
    /\ Failed(3)
    /\ outcome.kind # "return"
====
